---------------------------- MODULE Spec2Model ----------------------------
(***************************************************************************)
(* A model of src/src/preprocess_accessibility.py: the text repair, the    *)
(* attribute-name deduplication and the accessibility pipeline             *)
(* (filter, buffer, spatial join, aggregation, amenity export).            *)
(*                                                                         *)
(* Text is a sequence of Unicode code points, a byte string a sequence of  *)
(* numbers 0..255.  Attribute names and category labels are sequences of   *)
(* one-character strings.                                                  *)
(***************************************************************************)
EXTENDS Integers, Sequences, FiniteSets, TLC

VARIABLES
    \* ---- repair_text_encoding ----
    rtPc,        \* "idle" | "start" | "corrupted" | "done"
    rtClean,     \* the value the run starts from (a clean string S, or any value)
    rtText,      \* the argument handed to repair_text_encoding
    rtResult,    \* its return value
    rtVia,       \* TRUE when rtText = corrupt(rtClean)
    \* ---- _unique_columns ----
    ucPc,        \* "idle" | "start" | "done"
    ucCols,      \* list(gdf.columns) of the argument
    ucOut,       \* the column names of the returned frame
    \* ---- compute_building_accessibility ----
    pc,          \* position in the pipeline
    rawBuildings,   \* the buildings layer as loaded
    rawAmenities,   \* the amenities layer as loaded and text-repaired
    buildings,      \* the buildings table (rows keyed by building_id)
    amenities,      \* the amenities table after the classification filter
    joined,         \* result of gpd.sjoin
    pivot,          \* the wide count table
    amen_all,       \* contents of amenities_all.geojson
    amen_files,     \* file name -> contents of amenities_<category>.geojson
    has_type_column,   \* amenity_type_column in amenities.columns
    trees_gdf,      \* the trees layer, or None
    parks_gdf,      \* the parks layer, or None
    frames,         \* the *_wgs84 / amenities_filtered frames the export holds
    out_files,      \* file name -> layer written under OUTPUT_DIR
    web_files,      \* file name -> layer written under DOCS_DATA_DIR
    error,          \* "none", or the exception that ended the run
    \* ---- load_layer ----
    ld,             \* one call: source layer, target_crs, outcome
    \* ---- reduce_coordinate_precision ----
    rd,             \* one geometry, rounded once and twice
    \* ---- simplify_geometries ----
    sg,             \* one call: the layer passed, the tolerance, the outcome
    \* ---- two runs of the aggregation ----
    pr              \* the inputs of two runs and the amen_ columns of each

rtVars == <<rtPc, rtClean, rtText, rtResult, rtVia>>
ucVars == <<ucPc, ucCols, ucOut>>
runVars == <<has_type_column, trees_gdf, parks_gdf, frames, out_files,
             web_files, error>>
plVars == <<pc, rawBuildings, rawAmenities, buildings, amenities, joined,
            pivot, amen_all, amen_files, runVars>>
dataVars == <<rawBuildings, rawAmenities, buildings, amenities, joined, pivot,
              amen_all, amen_files>>
auxVars == <<ld, rd, sg, pr>>
vars == <<rtVars, ucVars, plVars, auxVars>>

\* A missing value (NaN / None in a pandas cell).
NaN == [kind |-> "nan", s |-> <<>>]
NoneVal == [kind |-> "none", s |-> <<>>]
NumVal == [kind |-> "num", s |-> <<>>]
StrVal(s) == [kind |-> "str", s |-> s]

RtIdle == rtPc = "idle" /\ rtClean = NoneVal /\ rtText = NoneVal
          /\ rtResult = NoneVal /\ rtVia = FALSE
UcIdle == ucPc = "idle" /\ ucCols = <<>> /\ ucOut = <<>>
\* A table cell holding a count, and the missing cell.
Num(n) == [isna |-> FALSE, n |-> n]
NA == [isna |-> TRUE, n |-> 0]

EmptyPivot == [index |-> {}, columns |-> <<>>, val |-> <<>>]
\* Python's None where a layer is expected.
NoError == [exc |-> "none", layer |-> "none"]
NoLayer == [loaded |-> FALSE, crs |-> 0, rows |-> <<>>, ops |-> <<>>]
NoFrames == [buildings_wgs84 |-> NoLayer, amenities_filtered |-> NoLayer,
             trees_wgs84 |-> NoLayer, parks_wgs84 |-> NoLayer]
PlBlank == buildings = <<>> /\ amenities = {} /\ joined = {}
           /\ pivot = EmptyPivot /\ amen_all = {} /\ amen_files = <<>>
           /\ trees_gdf = NoLayer /\ parks_gdf = NoLayer /\ frames = NoFrames
           /\ out_files = <<>> /\ web_files = <<>> /\ error = NoError
LdIdle == ld = [pc |-> "idle"]
RdIdle == rd = [pc |-> "idle"]
SgIdle == sg = [pc |-> "idle"]
PrIdle == pr = [pc |-> "idle"]
AuxIdle == LdIdle /\ RdIdle /\ SgIdle /\ PrIdle
PlIdle == has_type_column = TRUE /\ pc = "idle" /\ rawBuildings = <<>> /\ rawAmenities = <<>> /\ PlBlank

(***************************************************************************)
(*                        repair_text_encoding                             *)
(***************************************************************************)

\* Longest text tried.
MaxLen == 3

\* Code points the texts are made of:  A, U+0090, x (U+00D7), O-stroke
\* (U+00D8), e-acute (U+00E9), Hebrew point U+05BF (bytes D6 BF), Hebrew
\* alef (U+05D0, D7 90), Arabic beh (U+0628, D8 A8), Syriac U+0740 (DD 80),
\* euro sign (U+20AC, three bytes), U+1F600 (four bytes).
CodePoints == {65, 144, 215, 216, 233, 1471, 1488, 1576, 1856, 8364, 128512}

Texts == UNION {[1..n -> CodePoints] : n \in 0..MaxLen}

\* str.encode("utf-8") of one code point (no surrogates among CodePoints).
Utf8EncodeChar(c) ==
    IF c < 128 THEN <<c>>
    ELSE IF c < 2048 THEN <<192 + (c \div 64), 128 + (c % 64)>>
    ELSE IF c < 65536 THEN
        <<224 + (c \div 4096), 128 + ((c \div 64) % 64), 128 + (c % 64)>>
    ELSE <<240 + (c \div 262144), 128 + ((c \div 4096) % 64),
           128 + ((c \div 64) % 64), 128 + (c % 64)>>

RECURSIVE Utf8Encode(_)
Utf8Encode(s) ==
    IF s = <<>> THEN <<>> ELSE Utf8EncodeChar(Head(s)) \o Utf8Encode(Tail(s))

\* bytes.decode("latin-1"): byte b becomes the code point U+00b.
Latin1Decode(b) == [i \in 1..Len(b) |-> b[i]]

\* str.encode("latin-1", errors="ignore"): code points above U+00FF are dropped.
Latin1EncodeIgnore(s) == SelectSeq(s, LAMBDA c : c < 256)

IsCont(x) == x >= 128 /\ x < 192
\* second byte of a three-byte sequence: E0 needs A0..BF, ED needs 80..9F
Second3Ok(ch, ch2) ==
    IsCont(ch2) /\ ~(ch = 224 /\ ch2 < 160) /\ ~(ch = 237 /\ ch2 >= 160)
\* second byte of a four-byte sequence: F0 needs 90..BF, F4 needs 80..8F
Second4Ok(ch, ch2) ==
    IsCont(ch2) /\ ~(ch = 240 /\ ch2 < 144) /\ ~(ch = 244 /\ ch2 >= 144)

\* bytes.decode("utf-8", errors="ignore") from byte i on: a malformed
\* sequence is skipped up to the byte that breaks it, a truncated one at the
\* end of the input is skipped whole.
RECURSIVE Utf8DecodeFrom(_, _)
Utf8DecodeFrom(b, i) ==
    IF i > Len(b) THEN <<>>
    ELSE
      LET ch == b[i]
          n == Len(b) - i + 1
      IN
      IF ch < 128 THEN <<ch>> \o Utf8DecodeFrom(b, i + 1)
      ELSE IF ch < 194 THEN Utf8DecodeFrom(b, i + 1)
      ELSE IF ch < 224 THEN
          IF n < 2 THEN <<>>
          ELSE IF ~IsCont(b[i + 1]) THEN Utf8DecodeFrom(b, i + 1)
          ELSE <<(ch % 32) * 64 + (b[i + 1] % 64)>> \o Utf8DecodeFrom(b, i + 2)
      ELSE IF ch < 240 THEN
          IF n = 1 THEN <<>>
          ELSE IF ~Second3Ok(ch, b[i + 1]) THEN Utf8DecodeFrom(b, i + 1)
          ELSE IF n = 2 THEN <<>>
          ELSE IF ~IsCont(b[i + 2]) THEN Utf8DecodeFrom(b, i + 2)
          ELSE <<(ch % 16) * 4096 + (b[i + 1] % 64) * 64 + (b[i + 2] % 64)>>
               \o Utf8DecodeFrom(b, i + 3)
      ELSE IF ch < 245 THEN
          IF n = 1 THEN <<>>
          ELSE IF ~Second4Ok(ch, b[i + 1]) THEN Utf8DecodeFrom(b, i + 1)
          ELSE IF n = 2 THEN <<>>
          ELSE IF ~IsCont(b[i + 2]) THEN Utf8DecodeFrom(b, i + 2)
          ELSE IF n = 3 THEN <<>>
          ELSE IF ~IsCont(b[i + 3]) THEN Utf8DecodeFrom(b, i + 3)
          ELSE <<(ch % 8) * 262144 + (b[i + 1] % 64) * 4096
                 + (b[i + 2] % 64) * 64 + (b[i + 3] % 64)>>
               \o Utf8DecodeFrom(b, i + 4)
      ELSE Utf8DecodeFrom(b, i + 1)

Utf8DecodeIgnore(b) == Utf8DecodeFrom(b, 1)

\* The forward corruption: the UTF-8 bytes of S read as Latin-1.
Corrupt(s) == Latin1Decode(Utf8Encode(s))

\* mojibake_indicators without the Arabic marker
mojibake_indicators_hebrew_only == {215}
\* ("x", "O-stroke", "U-grave", "U-acute", "U-circumflex", "U-diaeresis")
mojibake_indicators == {215, 216, 217, 218, 219, 220}

\* a marker test that lets every text through to the re-encoding
HasIndicator_always(s) == TRUE
\* any(indicator in text for indicator in mojibake_indicators)
HasIndicator(s) == \E i \in 1..Len(s) : s[i] \in mojibake_indicators

\* text.encode("latin-1", errors="ignore").decode("utf-8", errors="ignore")
Reencode(s) == Utf8DecodeIgnore(Latin1EncodeIgnore(s))

\* the repair without the "not repaired" test
repair_text_encoding_no_empty_check(v) ==
    IF v.kind # "str" \/ v.s = <<>> THEN v
    ELSE IF ~HasIndicator(v.s) THEN v
    ELSE IF Reencode(v.s) = v.s THEN v
    ELSE StrVal(Reencode(v.s))
\* With errors="ignore" neither call raises, so the except branch is never
\* taken.
repair_text_encoding(v) ==
    IF v.kind # "str" \/ v.s = <<>> THEN v
    ELSE IF ~HasIndicator(v.s) THEN v
    ELSE LET repaired == Reencode(v.s) IN
         IF repaired = <<>> \/ repaired = v.s THEN v
         ELSE StrVal(repaired)

RtValues == {StrVal(s) : s \in Texts} \cup {NaN, NoneVal, NumVal}

InitRepair ==
    /\ rtPc = "start"
    /\ rtClean \in RtValues
    /\ rtText = rtClean
    /\ rtResult = NoneVal
    /\ rtVia = FALSE
    /\ UcIdle /\ PlIdle /\ AuxIdle

\* The value is a clean string and was garbled before it reached the repair.
RtCorrupt ==
    /\ rtPc = "start"
    /\ rtClean.kind = "str"
    /\ rtText' = StrVal(Corrupt(rtClean.s))
    /\ rtVia' = TRUE
    /\ rtPc' = "corrupted"
    /\ UNCHANGED <<rtClean, rtResult, ucVars, plVars, auxVars>>

RtRepair ==
    /\ rtPc \in {"start", "corrupted"}
    /\ rtResult' = repair_text_encoding(rtText)
    /\ rtPc' = "done"
    /\ UNCHANGED <<rtClean, rtText, rtVia, ucVars, plVars, auxVars>>

NextRepair == RtCorrupt \/ RtRepair

SpecRepair == InitRepair /\ [][NextRepair]_vars

----------------------------------------------------------------------------
\* Claims about repair_text_encoding, checked under SpecRepair.

MarkerAt(s, i) == s[i] >= 215 /\ s[i] <= 220
ContainsMarker(s) == \E i \in 1..Len(s) : MarkerAt(s, i)
IsAscii(s) == \A i \in 1..Len(s) : s[i] < 128
\* a code point whose UTF-8 lead byte is D7..DC: U+05C0..U+073F
LeadIsMarker(c) == c >= 1472 /\ c <= 1855

\* C4 (as claimed): for every clean string S, repairing the Latin-1
\* mis-decoding of S's UTF-8 bytes gives back S.
C4_RoundTripEveryString ==
    (rtPc = "done" /\ rtVia) => rtResult = rtClean

\* C4 (amended): the round trip gives back S exactly when S is pure ASCII or
\* holds a code point in U+05C0..U+073F (Hebrew letters, Arabic), whose lead
\* byte reads as one of the markers; any other garbled string is returned as
\* it came in, still garbled.
C4_RoundTripMarkedScripts ==
    (rtPc = "done" /\ rtVia) =>
        IF IsAscii(rtClean.s) \/ \E i \in 1..Len(rtClean.s) : LeadIsMarker(rtClean.s[i])
        THEN rtResult = rtClean
        ELSE rtResult = rtText /\ rtResult # rtClean

\* A Hebrew or Arabic string mixed with a three-byte character was garbled
\* and is restored.
C4_Witness ==
    /\ rtPc = "done" /\ rtVia
    /\ \E i \in 1..Len(rtClean.s) : LeadIsMarker(rtClean.s[i])
    /\ \E i \in 1..Len(rtClean.s) : rtClean.s[i] >= 2048
    /\ rtText # rtClean
    /\ rtResult = rtClean

\* C5: a string holding none of the six marker characters, and every value
\* that is not a string, comes back unchanged.
C5_NoMarkerNoOp ==
    rtPc = "done" =>
        /\ rtText.kind # "str" => rtResult = rtText
        /\ (rtText.kind = "str" /\ ~ContainsMarker(rtText.s)) => rtResult = rtText

\* A marker-free string that the re-encoding would have changed is returned
\* as it is.
C5_Witness ==
    /\ rtPc = "done" /\ rtText.kind = "str" /\ rtText.s # <<>>
    /\ ~ContainsMarker(rtText.s)
    /\ Utf8DecodeIgnore(Latin1EncodeIgnore(rtText.s)) # rtText.s
    /\ rtResult = rtText

\* The re-encoding loses part of the text: a code point has no Latin-1 byte,
\* or the bytes are not valid UTF-8 (so the text is no mis-decoding of UTF-8).
Garbage(s) ==
    \/ Latin1EncodeIgnore(s) # s
    \/ Utf8Encode(Utf8DecodeIgnore(Latin1EncodeIgnore(s))) # Latin1EncodeIgnore(s)

\* C6 (as claimed): a string with a marker that is already-correct text, or
\* whose re-encoding drops characters, is returned unchanged.
C6_ConservativeOnGarbage ==
    (rtPc = "done" /\ rtText.kind = "str" /\ ContainsMarker(rtText.s)
        /\ Garbage(rtText.s)) => rtResult = rtText

\* C7: a non-empty string never becomes empty, and when the re-encoding is
\* empty or equal to the input the input is what comes back.
C7_NeverEmpty ==
    (rtPc = "done" /\ rtText.kind = "str" /\ rtText.s # <<>>) =>
        /\ rtResult.kind = "str" /\ rtResult.s # <<>>
        /\ (ContainsMarker(rtText.s)
              /\ Utf8DecodeIgnore(Latin1EncodeIgnore(rtText.s)) \in {<<>>, rtText.s})
           => rtResult = rtText

\* A string with a marker whose re-encoding is empty keeps its text.
C7_Witness ==
    /\ rtPc = "done" /\ rtText.kind = "str" /\ rtText.s # <<>>
    /\ ContainsMarker(rtText.s)
    /\ Utf8DecodeIgnore(Latin1EncodeIgnore(rtText.s)) = <<>>
    /\ rtResult = rtText


(***************************************************************************)
(*                           _unique_columns                               *)
(***************************************************************************)

\* Longest column list tried.
MaxCols == 3

\* Attribute names the lists are drawn from: a, b, a_1, a_2.
ColNames == {<<"a">>, <<"b">>, <<"a", "_", "1">>, <<"a", "_", "2">>}

ColLists == UNION {[1..n -> ColNames] : n \in 0..MaxCols}

DigitChars == <<"0", "1", "2", "3", "4", "5", "6", "7", "8", "9">>

\* str(k) for k >= 0, as in the f-string
RECURSIVE IntToStr(_)
IntToStr(k) ==
    IF k < 10 THEN <<DigitChars[k + 1]>>
    ELSE IntToStr(k \div 10) \o <<DigitChars[(k % 10) + 1]>>

\* f"{c}_{k}"
Suffixed(c, k) == c \o <<"_">> \o IntToStr(k)

SeqRange(s) == {s[i] : i \in 1..Len(s)}

\* The loop over cols: seen maps a name to the number of repeats met so far.
RECURSIVE UniqueLoop(_, _, _, _)
UniqueLoop(cols, i, seen, new_cols) ==
    IF i > Len(cols) THEN new_cols
    ELSE LET c == cols[i] IN
         IF c \in DOMAIN seen
         THEN UniqueLoop(cols, i + 1, [seen EXCEPT ![c] = @ + 1],
                         Append(new_cols, Suffixed(c, seen[c] + 1)))
         ELSE UniqueLoop(cols, i + 1,
                         [x \in DOMAIN seen \cup {c} |-> IF x = c THEN 0 ELSE seen[x]],
                         Append(new_cols, c))

\* The column names of _unique_columns(gdf), given list(gdf.columns).
unique_columns(cols) ==
    IF Len(cols) = Cardinality(SeqRange(cols)) THEN cols
    ELSE UniqueLoop(cols, 1, <<>>, <<>>)

InitColumns ==
    /\ ucPc = "start"
    /\ ucCols \in ColLists
    /\ ucOut = <<>>
    /\ RtIdle /\ PlIdle /\ AuxIdle

UcRename ==
    /\ ucPc = "start"
    /\ ucOut' = unique_columns(ucCols)
    /\ ucPc' = "done"
    /\ UNCHANGED <<ucCols, rtVars, plVars, auxVars>>

NextColumns == UcRename

SpecColumns == InitColumns /\ [][NextColumns]_vars

----------------------------------------------------------------------------
\* Claims about _unique_columns, checked under SpecColumns.

\* how many earlier columns carry the name of column i
RepeatsBefore(cols, i) == Cardinality({j \in 1..(i - 1) : cols[j] = cols[i]})

\* first occurrences keep their name, the k-th repeat of c becomes c_k
RenamedInOrder ==
    ucPc = "done" =>
        /\ Len(ucOut) = Len(ucCols)
        /\ \A i \in 1..Len(ucCols) :
              ucOut[i] = IF RepeatsBefore(ucCols, i) = 0 THEN ucCols[i]
                         ELSE Suffixed(ucCols[i], RepeatsBefore(ucCols, i))

\* C10 (as claimed): the returned names are pairwise distinct, first
\* occurrences keep their name and the k-th repeat of c is renamed c_k.
C10_NamesDistinct ==
    ucPc = "done" =>
        /\ \A i, j \in 1..Len(ucOut) : i # j => ucOut[i] # ucOut[j]
        /\ RenamedInOrder


\* ---------------------------------------------------------------------------
\* load_layer: read a layer, make its column names unique, bring it to
\* target_crs.  A CRS is its EPSG code; NoCRS is gdf.crs = None and
\* NoEpsgCode a declared CRS for which crs.to_epsg() finds no code.
\* ---------------------------------------------------------------------------
NoCRS == 0
NoEpsgCode == 0 - 1
SourceCrs == {NoCRS, NoEpsgCode, 2039, 4326, 32636}
TargetCrs == {2039, 4326}

NoResult == [returned |-> FALSE, crs |-> NoCRS, cols |-> <<>>]

\* GeoDataFrame.to_crs(epsg = target_crs)
to_crs(gdf, epsg) == [gdf EXCEPT !.crs = epsg]

\* crs.to_epsg(): the code, or None (which equals no target_crs)
to_epsg(crs) == IF crs = NoEpsgCode THEN NoCRS ELSE crs

load_layer_no_crs_check(gdf, target_crs) ==
    LET u == [returned |-> TRUE, crs |-> gdf.crs, cols |-> unique_columns(gdf.cols)]
    IN  [raised |-> "none", result |-> u, ops |-> <<>>]

\* the outcome of load_layer: the exception raised, the layer returned and
\* the reprojections performed
load_layer(gdf, target_crs) ==
    LET u == [returned |-> TRUE, crs |-> gdf.crs, cols |-> unique_columns(gdf.cols)]
    IN  IF u.crs = NoCRS
        THEN [raised |-> "ValueError", result |-> NoResult, ops |-> <<>>]
        ELSE IF to_epsg(u.crs) # target_crs
             THEN [raised |-> "none", result |-> to_crs(u, target_crs),
                   ops |-> <<<<"to_crs", target_crs>>>>]
             ELSE [raised |-> "none", result |-> u, ops |-> <<>>]

InitLoad ==
    /\ \E crs \in SourceCrs, cols \in ColLists, t \in TargetCrs :
          ld = [pc |-> "start", gdf |-> [crs |-> crs, cols |-> cols],
                target_crs |-> t, raised |-> "none", result |-> NoResult,
                ops |-> <<>>]
    /\ RtIdle /\ UcIdle /\ PlIdle /\ RdIdle /\ SgIdle /\ PrIdle

LdLoad ==
    /\ ld.pc = "start"
    /\ LET r == load_layer(ld.gdf, ld.target_crs)
       IN  ld' = [ld EXCEPT !.pc = "done", !.raised = r.raised,
                            !.result = r.result, !.ops = r.ops]
    /\ UNCHANGED <<rd, sg, pr, rtVars, ucVars, plVars>>

NextLoad == LdLoad

SpecLoad == InitLoad /\ [][NextLoad]_vars

\* C11: a source layer that declares no CRS makes load_layer raise, return
\* no layer and attempt no reprojection; a layer with a declared CRS comes
\* back in target_crs, reprojected exactly when its declared CRS differs
\* from target_crs.
C11_LoadLayerCrs ==
    ld.pc = "done" =>
       IF ld.gdf.crs = NoCRS
       THEN /\ ld.raised # "none"
            /\ ~ld.result.returned
            /\ ld.ops = <<>>
       ELSE /\ ld.raised = "none"
            /\ ld.result.returned
            /\ ld.result.crs = ld.target_crs
            /\ (ld.ops # <<>>) <=> (ld.gdf.crs # ld.target_crs)
            /\ \A i \in 1..Len(ld.ops) : ld.ops[i] = <<"to_crs", ld.target_crs>>

C11_Witness ==
    /\ ld.pc = "done"
    /\ ld.gdf.crs = NoCRS
    /\ ld.gdf.cols # <<>>
    /\ ld.raised = "ValueError"

C11_WitnessReprojected ==
    /\ ld.pc = "done"
    /\ ld.gdf.crs = 4326
    /\ ld.target_crs = 2039
    /\ ld.result.crs = 2039
    /\ Len(ld.ops) = 1


(***************************************************************************)
(*                    compute_building_accessibility                       *)
(*                                                                         *)
(* Space is a line of unit cells; a geometry is the set of cells it        *)
(* covers ({} is the empty geometry).  The run starts with the layers      *)
(* loaded, reprojected and text-repaired.                                  *)
(***************************************************************************)

\* Most buildings and most amenities in the input layers.
MaxBuildings == 2
MaxAmenities == 2

\* the buffer radius, in cells
buffer_m == 1

Geom(cells) == [kind |-> "geom", cells |-> cells]
NullGeom == [kind |-> "null", cells |-> {}]

\* Building features: footprint and what geometry.is_valid answers.
BuildingSamples ==
    { [cells |-> {1}, is_valid |-> TRUE],
      [cells |-> {3}, is_valid |-> TRUE],
      [cells |-> {1}, is_valid |-> FALSE],
      [cells |-> {}, is_valid |-> TRUE] }

\* Amenity features: geometry and the raw value of the classification column.
AmenitySamples ==
    { [geom |-> Geom({2}), cls |-> StrVal(<<"A", " ", "b">>)],
      [geom |-> Geom({3, 4}), cls |-> StrVal(<<"O", "t", "h", "e", "r">>)],
      [geom |-> Geom({1, 2, 3}), cls |-> StrVal(<<"a", "/", "b">>)],
      [geom |-> Geom({6}), cls |-> StrVal(<<"A", " ", "b">>)],
      [geom |-> Geom({0}), cls |-> StrVal(<<" ">>)],
      [geom |-> Geom({2}), cls |-> NaN],
      [geom |-> Geom({0}), cls |-> NoneVal],
      [geom |-> Geom({}), cls |-> StrVal(<<"A", " ", "b">>)],
      [geom |-> NullGeom, cls |-> StrVal(<<"C">>)],
      [geom |-> Geom({0, 1}), cls |-> StrVal(<<" ", "C">>)],
      [geom |-> Geom({2}), cls |-> StrVal(<<"a", "\\", "b">>)] }

EXCLUDED_AMENITY_TYPES ==
    { <<"n", "o", "n", "e">>,
      <<"o", "t", "h", "e", "r">>,
      <<"p", "r", "i", "v", "a", "t", "e", "_",
        "e", "s", "t", "a", "b", "l", "i", "s", "h", "m", "e", "n", "t">> }

\* ---- string methods on sequences of characters ----

UpperChars == <<"A", "B", "C", "D", "E", "F", "G", "H", "I", "J", "K", "L", "M",
                "N", "O", "P", "Q", "R", "S", "T", "U", "V", "W", "X", "Y", "Z">>
LowerChars == <<"a", "b", "c", "d", "e", "f", "g", "h", "i", "j", "k", "l", "m",
                "n", "o", "p", "q", "r", "s", "t", "u", "v", "w", "x", "y", "z">>
\* characters in code-point order
CharOrder == <<"\t", "\n", " ", "/">> \o DigitChars \o UpperChars
             \o <<"\\", "_">> \o LowerChars
Ord(c) == CHOOSE i \in 1..Len(CharOrder) : CharOrder[i] = c

IsSpace(c) == c \in {" ", "\t", "\n"}

\* Series.astype(str) on one cell
astype_str(v) ==
    IF v.kind = "str" THEN v.s
    ELSE IF v.kind = "nan" THEN <<"n", "a", "n">>
    ELSE <<"N", "o", "n", "e">>

RECURSIVE lstrip(_)
lstrip(s) == IF s # <<>> /\ IsSpace(Head(s)) THEN lstrip(Tail(s)) ELSE s
RECURSIVE rstrip(_)
rstrip(s) ==
    IF s # <<>> /\ IsSpace(s[Len(s)]) THEN rstrip(SubSeq(s, 1, Len(s) - 1)) ELSE s
\* str.strip()
strip(s) == rstrip(lstrip(s))

\* str.lower()
lower(s) ==
    [i \in 1..Len(s) |->
        IF \E k \in 1..Len(UpperChars) : UpperChars[k] = s[i]
        THEN LowerChars[CHOOSE k \in 1..Len(UpperChars) : UpperChars[k] = s[i]]
        ELSE s[i]]

\* str.replace(old, new) for one-character old and new
replace(s, old, new) == [i \in 1..Len(s) |-> IF s[i] = old THEN new ELSE s[i]]

\* The derived amenity_type of a classification cell: NA or a label.
amenity_type_of(v) ==
    LET slug == replace(replace(lower(strip(astype_str(v))), " ", "_"), "/", "_")
    IN IF slug = <<"n", "a", "n">> THEN [isna |-> TRUE, label |-> <<>>]
       ELSE [isna |-> FALSE, label |-> slug]

\* lexicographic order of labels, as pandas sorts group keys
RECURSIVE LexLess(_, _)
LexLess(a, b) ==
    IF a = <<>> THEN b # <<>>
    ELSE IF b = <<>> THEN FALSE
    ELSE IF Head(a) = Head(b) THEN LexLess(Tail(a), Tail(b))
    ELSE Ord(Head(a)) < Ord(Head(b))

RECURSIVE SortedLabels(_)
SortedLabels(S) ==
    IF S = {} THEN <<>>
    ELSE LET m == CHOOSE x \in S : \A y \in S \ {x} : LexLess(x, y)
         IN <<m>> \o SortedLabels(S \ {m})

\* ---- geometry ----

\* geometry.buffer(r)
Buffer(cells, r) == {c + d : c \in cells, d \in (0 - r)..r}

\* predicate="intersects"
Within_intersects(g, buf) == g.kind = "geom" /\ g.cells \cap buf # {}
\* predicate="within": a null or empty geometry is within nothing
Within(g, buf) == g.kind = "geom" /\ g.cells # {} /\ g.cells \subseteq buf

InputBuildings == UNION {[1..n -> BuildingSamples] : n \in 0..MaxBuildings}
InputAmenities == UNION {[1..n -> AmenitySamples] : n \in 0..MaxAmenities}

Init ==
    /\ pc = "start"
    /\ rawBuildings \in InputBuildings
    /\ rawAmenities \in InputAmenities
    /\ has_type_column = TRUE
    /\ PlBlank
    /\ RtIdle /\ UcIdle /\ AuxIdle


\* ---- lines 244-257: filter the buildings, number them, buffer them ----

\* the filter without the validity test
valid_nonempty_only(b) == b.cells # {}
\* ~is_empty & is_valid
valid(b) == b.cells # {} /\ b.is_valid

\* buildings[valid] with building_id = the index reset_index gave the row
\* in the unfiltered layer (0-based), and the buffer column
BuildingRows(raw) ==
    LET kept == SelectSeq([i \in 1..Len(raw) |-> i], LAMBDA i : valid(raw[i]))
    IN [k \in 1..Len(kept) |->
           [building_id |-> kept[k] - 1,
            cells |-> raw[kept[k]].cells,
            buffer_m |-> Buffer(raw[kept[k]].cells, buffer_m),
            metrics |-> <<>>,
            num_amenities |-> NA]]

PrepareBuildings ==
    /\ pc = "start"
    /\ buildings' = BuildingRows(rawBuildings)
    /\ pc' = "buildings_ready"
    /\ UNCHANGED <<rawBuildings, rawAmenities, amenities, joined, pivot,
                   amen_all, amen_files, runVars, rtVars, ucVars, auxVars>>

\* ---- lines 261-262: the classification column must be there ----

column_missing_never(has_column) == FALSE
\* amenity_type_column not in amenities.columns
column_missing(has_column) == ~has_column

MissingClassificationColumn ==
    /\ pc = "buildings_ready"
    /\ column_missing(has_type_column)
    /\ pc' = "aborted"
    /\ error' = [exc |-> "KeyError", layer |-> "amenities"]
    /\ UNCHANGED <<dataVars, has_type_column, trees_gdf, parks_gdf, frames,
                   out_files, web_files, rtVars, ucVars, auxVars>>

\* ---- lines 259-273: derive amenity_type, drop the rows where it is NA ----

AmenityRows(raw) ==
    { [idx |-> i - 1, geom |-> raw[i].geom, cls |-> raw[i].cls,
       amenity_type |-> amenity_type_of(raw[i].cls).label] :
      i \in {k \in 1..Len(raw) : ~amenity_type_of(raw[k].cls).isna} }

PrepareAmenities ==
    /\ pc = "buildings_ready"
    /\ ~column_missing(has_type_column)
    /\ amenities' = AmenityRows(rawAmenities)
    /\ pc' = "amenities_ready"
    /\ UNCHANGED <<rawBuildings, rawAmenities, buildings, joined, pivot,
                   amen_all, amen_files, runVars, rtVars, ucVars, auxVars>>

\* ---- lines 275-281: gpd.sjoin(amenities, buffers, "within", how="left") ----

\* one row per (amenity, containing buffer); an amenity in no buffer keeps
\* one row with a missing building_id
SJoin(left, right) ==
    { [a |-> am.idx, amenity_type |-> am.amenity_type,
       building_id |-> Num(right[k].building_id)] :
      <<am, k>> \in {p \in left \X (1..Len(right)) :
                        Within(p[1].geom, right[p[2]].buffer_m)} }
    \cup
    { [a |-> am.idx, amenity_type |-> am.amenity_type, building_id |-> NA] :
      am \in {x \in left : \A k \in 1..Len(right) :
                              ~Within(x.geom, right[k].buffer_m)} }

SpatialJoin ==
    /\ pc = "amenities_ready"
    /\ joined' = SJoin(amenities, buildings)
    /\ pc' = "joined"
    /\ UNCHANGED <<rawBuildings, rawAmenities, buildings, amenities, pivot,
                   amen_all, amen_files, runVars, rtVars, ucVars, auxVars>>

\* ---- lines 283-293: count per (building_id, amenity_type), pivot ----

\* DataFrame.fillna(0) left out
fillna0_skipped(v) == v
\* DataFrame.fillna(0) on one cell
fillna0(v) == IF v.isna THEN Num(0) ELSE v

\* f"amen_{str(c).replace(' ', '_')}"
amen_col(c) == <<"a", "m", "e", "n", "_">> \o replace(c, " ", "_")

\* joined.dropna(subset=["building_id"]).groupby([...]).size()
Counts(j) ==
    LET kept == {r \in j : ~r.building_id.isna}
    IN { [building_id |-> g[1], amenity_type |-> g[2],
          count |-> Cardinality({r \in kept : r.building_id.n = g[1]
                                               /\ r.amenity_type = g[2]})] :
         g \in {<<r.building_id.n, r.amenity_type>> : r \in kept} }

\* counts.pivot(...).fillna(0), columns renamed
Pivot(counts) ==
    LET ids == {c.building_id : c \in counts}
        types == SortedLabels({c.amenity_type : c \in counts})
        cell(b, ty) ==
            IF \E c \in counts : c.building_id = b /\ c.amenity_type = ty
            THEN Num((CHOOSE c \in counts :
                        c.building_id = b /\ c.amenity_type = ty).count)
            ELSE NA
    IN [index |-> ids,
        columns |-> [i \in 1..Len(types) |-> amen_col(types[i])],
        val |-> [k \in {<<b, amen_col(types[i])>> : b \in ids, i \in 1..Len(types)} |->
                    fillna0(cell(k[1],
                        types[CHOOSE i \in 1..Len(types) : amen_col(types[i]) = k[2]]))]]

Aggregate ==
    /\ pc = "joined"
    /\ pivot' = Pivot(Counts(joined))
    /\ pc' = "aggregated"
    /\ UNCHANGED <<rawBuildings, rawAmenities, buildings, amenities, joined,
                   amen_all, amen_files, runVars, rtVars, ucVars, auxVars>>

\* ---- lines 295-300: merge on building_id, fill, sum ----

\* a sum that counts the non-zero columns instead of adding them
RECURSIVE sum_axis1_nonzero(_, _)
sum_axis1_nonzero(metrics, cols) ==
    IF cols = <<>> THEN 0
    ELSE (IF metrics[Head(cols)].n > 0 THEN 1 ELSE 0)
         + sum_axis1_nonzero(metrics, Tail(cols))
\* buildings[metric_cols].sum(axis=1) for one row
RECURSIVE sum_axis1(_, _)
sum_axis1(metrics, cols) ==
    IF cols = <<>> THEN 0
    ELSE metrics[Head(cols)].n + sum_axis1(metrics, Tail(cols))

\* The row after the left merge, the fill of every amen_ column and the sum.
MergedRow(row, pv) ==
    LET merged == [c \in SeqRange(pv.columns) |->
                      IF row.building_id \in pv.index
                      THEN pv.val[<<row.building_id, c>>] ELSE NA]
        metric_cols == pv.columns
        filled == [c \in SeqRange(metric_cols) |-> fillna0(merged[c])]
    IN [row EXCEPT !.metrics = filled,
                   !.num_amenities = Num(sum_axis1(filled, metric_cols))]

MergeMetrics ==
    /\ pc = "aggregated"
    /\ buildings' = [k \in 1..Len(buildings) |-> MergedRow(buildings[k], pivot)]
    /\ pc' = "merged"
    /\ UNCHANGED <<rawBuildings, rawAmenities, amenities, joined, pivot,
                   amen_all, amen_files, runVars, rtVars, ucVars, auxVars>>

\* ---- lines 302-313: num_trees per building ----

\* the metric CRS every layer is loaded in
crs_metric == 2039

\* a loaded layer: its CRS, its rows, and the operations applied to its
\* geometry column since it was loaded
Layer(crs, rows) == [loaded |-> TRUE, crs |-> crs, rows |-> rows, ops |-> <<>>]

\* the trees within the buffer of the row; 0 when trees_gdf is None
num_trees(row, trees) ==
    IF trees.loaded
    THEN Cardinality({t \in trees.rows : Within(t.geom, row.buffer_m)})
    ELSE 0

CountTrees ==
    /\ pc = "merged"
    /\ buildings' = [k \in 1..Len(buildings) |->
                        buildings[k] @@
                           ("num_trees" :> num_trees(buildings[k], trees_gdf))]
    /\ pc' = "trees_counted"
    /\ UNCHANGED <<rawBuildings, rawAmenities, amenities, joined, pivot,
                   amen_all, amen_files, runVars, rtVars, ucVars, auxVars>>

\* ---- lines 315-325: buildings_accessibility.geojson ----

\* buildings.drop(columns=["buffer_m"])
to_export(bs) ==
    [k \in 1..Len(bs) |-> [f \in DOMAIN bs[k] \ {"buffer_m"} |-> bs[k][f]]]

\* to_file: the file holds the layer, replacing what it held
to_file(files, name, layer) == (name :> layer) @@ files

WriteBuildings ==
    /\ pc = "trees_counted"
    /\ LET buildings_wgs84 == to_crs(Layer(crs_metric, to_export(buildings)), 4326)
       IN  /\ frames' = [frames EXCEPT !.buildings_wgs84 = buildings_wgs84]
           /\ out_files' = to_file(out_files, "buildings_accessibility",
                                   buildings_wgs84)
    /\ pc' = "buildings_written"
    /\ UNCHANGED <<rawBuildings, rawAmenities, buildings, amenities, joined,
                   pivot, amen_all, amen_files, has_type_column, trees_gdf,
                   parks_gdf, web_files, error, rtVars, ucVars, auxVars>>

\* ---- lines 327-347: the exported amenity layer and the per-type files ----

\* the export filter without the excluded-type test
amenities_filtered_all_types(am) ==
    {a \in am : a.geom.kind = "geom" /\ a.geom.cells # {}}
\* ~isin(EXCLUDED_AMENITY_TYPES) & ~is_empty & notna
amenities_filtered(am) ==
    {a \in am : /\ a.amenity_type \notin EXCLUDED_AMENITY_TYPES
                /\ a.geom.cells # {}
                /\ a.geom.kind # "null"}

\* str(amen_type).replace(" ", "_").replace("/", "_").replace("\\", "_")
safe_name(ty) == replace(replace(replace(ty, " ", "_"), "/", "_"), "\\", "_")
\* f"amenities_{safe_name}.geojson"
out_path(ty) ==
    <<"a", "m", "e", "n", "i", "t", "i", "e", "s", "_">> \o safe_name(ty)

\* the groupby loop: one to_file per group, a later write replaces the file
RECURSIVE WriteGroups(_, _, _)
WriteGroups(filtered, types, files) ==
    IF types = <<>> THEN files
    ELSE LET p == out_path(Head(types))
             subset == {a \in filtered : a.amenity_type = Head(types)}
         IN WriteGroups(filtered, Tail(types),
                [f \in DOMAIN files \cup {p} |-> IF f = p THEN subset ELSE files[f]])

ExportAmenities ==
    /\ pc = "buildings_written"
    /\ LET amenities_wgs84 == to_crs(Layer(crs_metric, amenities), 4326)
           filtered == [amenities_wgs84 EXCEPT !.rows = amenities_filtered(@)]
       IN  /\ amen_all' = filtered.rows
           /\ frames' = [frames EXCEPT !.amenities_filtered = filtered]
           /\ out_files' = to_file(out_files, "amenities_all", filtered)
           /\ amen_files' =
                 WriteGroups(filtered.rows,
                             SortedLabels({a.amenity_type : a \in filtered.rows}),
                             <<>>)
    /\ pc' = "exported"
    /\ UNCHANGED <<rawBuildings, rawAmenities, buildings, amenities, joined,
                   pivot, has_type_column, trees_gdf, parks_gdf, web_files,
                   error, rtVars, ucVars, auxVars>>

Next ==
    \/ PrepareBuildings
    \/ PrepareAmenities
    \/ SpatialJoin
    \/ Aggregate
    \/ MergeMetrics
    \/ CountTrees
    \/ WriteBuildings
    \/ ExportAmenities

Spec == Init /\ [][Next]_vars


\* ---------------------------------------------------------------------------
\* The whole run: loading (lines 216-242), the classification-column check
\* (261-262), the stages above, the trees and parks files (349-363) and the
\* web files (365-393).
\* ---------------------------------------------------------------------------

\* Most features in each layer of a whole run.
MaxRunFeatures == 1

\* simplification tolerances, in tenths of a metre
BUILDING_SIMPLIFY_TOLERANCE_M == 15
PARK_SIMPLIFY_TOLERANCE_M == 20

RunAmenitySamples == {s \in AmenitySamples : s.geom \in {Geom({2}), Geom({3, 4})}}
TreeSamples == {Geom({1}), Geom({7})}
ParkSamples == {Geom({1, 2}), Geom({8, 9})}
\* what the source files declare as their CRS
LayerCrs == {NoCRS, 4326}

RunBuildings == UNION {[1..n -> BuildingSamples] : n \in 0..MaxRunFeatures}
RunAmenities == UNION {[1..n -> RunAmenitySamples] : n \in 0..MaxRunFeatures}
TreeLayers == UNION {[1..n -> TreeSamples] : n \in 0..MaxRunFeatures}
ParkLayers == UNION {[1..n -> ParkSamples] : n \in 0..MaxRunFeatures}

\* the rows of a trees or parks layer
FeatureRows(geoms) == {[idx |-> i - 1, geom |-> geoms[i]] : i \in 1..Len(geoms)}

InitRun ==
    /\ pc = "load_buildings"
    /\ rawBuildings \in RunBuildings
    /\ rawAmenities \in RunAmenities
    /\ has_type_column \in BOOLEAN
    /\ PlBlank
    /\ RtIdle /\ UcIdle /\ AuxIdle

\* ---- lines 223-242: loading ----

\* an optional layer whose load_layer exception is not caught
load_optional_propagates(exists, gdf, target_crs) ==
    IF exists
    THEN load_layer(gdf, target_crs)
    ELSE [raised |-> "none", result |-> NoResult, ops |-> <<>>]

\* if path.exists(): try: load_layer(...) except Exception: warning
load_optional(exists, gdf, target_crs) ==
    IF exists /\ load_layer(gdf, target_crs).raised = "none"
    THEN load_layer(gdf, target_crs)
    ELSE [raised |-> "none", result |-> NoResult, ops |-> <<>>]

LoadBuildings ==
    /\ pc = "load_buildings"
    /\ \E crs \in LayerCrs :
          LET r == load_layer([crs |-> crs, cols |-> <<>>], crs_metric)
          IN  IF r.raised # "none"
              THEN pc' = "aborted" /\ error' = [exc |-> r.raised, layer |-> "buildings"]
              ELSE pc' = "load_amenities" /\ error' = error
    /\ UNCHANGED <<dataVars, has_type_column, trees_gdf, parks_gdf, frames,
                   out_files, web_files, rtVars, ucVars, auxVars>>

LoadAmenities ==
    /\ pc = "load_amenities"
    /\ \E crs \in LayerCrs :
          LET r == load_layer([crs |-> crs, cols |-> <<>>], crs_metric)
          IN  IF r.raised # "none"
              THEN pc' = "aborted" /\ error' = [exc |-> r.raised, layer |-> "amenities"]
              ELSE pc' = "load_trees" /\ error' = error
    /\ UNCHANGED <<dataVars, has_type_column, trees_gdf, parks_gdf, frames,
                   out_files, web_files, rtVars, ucVars, auxVars>>

LoadTrees ==
    /\ pc = "load_trees"
    /\ \E exists \in BOOLEAN, crs \in LayerCrs, t \in TreeLayers :
          LET r == load_optional(exists, [crs |-> crs, cols |-> <<>>], crs_metric)
          IN  IF r.raised # "none"
              THEN /\ pc' = "aborted" /\ error' = [exc |-> r.raised, layer |-> "trees"]
                   /\ UNCHANGED trees_gdf
              ELSE /\ pc' = "load_parks" /\ error' = error
                   /\ trees_gdf' = IF r.result.returned
                                   THEN Layer(r.result.crs, FeatureRows(t))
                                   ELSE NoLayer
    /\ UNCHANGED <<dataVars, has_type_column, parks_gdf, frames,
                   out_files, web_files, rtVars, ucVars, auxVars>>

LoadParks ==
    /\ pc = "load_parks"
    /\ \E exists \in BOOLEAN, crs \in LayerCrs, p \in ParkLayers :
          LET r == load_optional(exists, [crs |-> crs, cols |-> <<>>], crs_metric)
          IN  IF r.raised # "none"
              THEN /\ pc' = "aborted" /\ error' = [exc |-> r.raised, layer |-> "parks"]
                   /\ UNCHANGED parks_gdf
              ELSE /\ pc' = "start" /\ error' = error
                   /\ parks_gdf' = IF r.result.returned
                                   THEN Layer(r.result.crs, FeatureRows(p))
                                   ELSE NoLayer
    /\ UNCHANGED <<dataVars, has_type_column, trees_gdf, frames,
                   out_files, web_files, rtVars, ucVars, auxVars>>

\* ---- lines 349-363: trees.geojson and parks.geojson ----

\* trees_gdf.set_geometry(trees_gdf.geometry.centroid)
centroids(gdf) == [gdf EXCEPT !.ops = Append(@, <<"centroid">>)]

WriteTrees ==
    /\ pc = "exported"
    /\ IF trees_gdf.loaded
       THEN LET trees_wgs84 == to_crs(centroids(trees_gdf), 4326)
            IN  /\ trees_gdf' = centroids(trees_gdf)
                /\ frames' = [frames EXCEPT !.trees_wgs84 = trees_wgs84]
                /\ out_files' = to_file(out_files, "trees", trees_wgs84)
       ELSE UNCHANGED <<trees_gdf, frames, out_files>>
    /\ pc' = "trees_written"
    /\ UNCHANGED <<dataVars, has_type_column, parks_gdf, web_files, error,
                   rtVars, ucVars, auxVars>>

WriteParks ==
    /\ pc = "trees_written"
    /\ IF parks_gdf.loaded
       THEN LET parks_wgs84 == to_crs(parks_gdf, 4326)
            IN  /\ frames' = [frames EXCEPT !.parks_wgs84 = parks_wgs84]
                /\ out_files' = to_file(out_files, "parks", parks_wgs84)
       ELSE UNCHANGED <<frames, out_files>>
    /\ pc' = "parks_written"
    /\ UNCHANGED <<dataVars, has_type_column, trees_gdf, parks_gdf, web_files,
                   error, rtVars, ucVars, auxVars>>

\* ---- lines 131-187: the two geometry transforms on a layer ----
\* Each yields the layer it returns (ret) and the layer its argument is
\* after the call (gdf).

\* simplification done on the argument itself
simplify_geometries_in_place(gdf, tolerance_m) ==
    LET s == [gdf EXCEPT !.ops = @ \o << <<"make_valid">>, <<"simplify", tolerance_m, "preserve_topology">> >>]
    IN  [gdf |-> s, ret |-> s]

simplify_geometries(gdf, tolerance_m) ==
    LET original_crs == gdf.crs
        geographic == original_crs # NoCRS /\ to_epsg(original_crs) = 4326
        metric == IF geographic
                  THEN [to_crs(gdf, 2039) EXCEPT !.ops = Append(@, <<"to_crs", 2039>>)]
                  ELSE gdf
        simplified == [metric EXCEPT !.ops = @ \o << <<"make_valid">>,
                                                     <<"simplify", tolerance_m, "preserve_topology">> >>]
        back == IF geographic
                THEN [to_crs(simplified, original_crs) EXCEPT
                         !.ops = Append(@, <<"to_crs", original_crs>>)]
                ELSE simplified
    IN  [gdf |-> gdf, ret |-> back]

\* rounding done on the argument itself
reduce_coordinate_precision_in_place(gdf, precision) ==
    LET r == [gdf EXCEPT !.ops = Append(@, <<"round", precision>>)]
    IN  [gdf |-> r, ret |-> r]

reduce_coordinate_precision(gdf, precision) ==
    [gdf |-> gdf,
     ret |-> [gdf EXCEPT !.ops = Append(@, <<"round", precision>>)]]

\* ---- lines 365-393: the web files ----

\* amenities_<category> files written to docs/data: none
web_amen_files == <<>>

WebBuildings ==
    /\ pc = "parks_written"
    /\ LET s == simplify_geometries(frames.buildings_wgs84, BUILDING_SIMPLIFY_TOLERANCE_M)
           buildings_web == reduce_coordinate_precision(s.ret, 6).ret
       IN  /\ frames' = [frames EXCEPT !.buildings_wgs84 = s.gdf]
           /\ web_files' = to_file(web_files, "buildings_accessibility", buildings_web)
    /\ pc' = "web_buildings"
    /\ UNCHANGED <<dataVars, has_type_column, trees_gdf, parks_gdf, out_files,
                   error, rtVars, ucVars, auxVars>>

WebAmenities ==
    /\ pc = "web_buildings"
    /\ LET r == reduce_coordinate_precision(frames.amenities_filtered, 6)
       IN  /\ frames' = [frames EXCEPT !.amenities_filtered = r.gdf]
           /\ web_files' = to_file(web_files, "amenities_all", r.ret)
    /\ pc' = "web_amenities"
    /\ UNCHANGED <<dataVars, has_type_column, trees_gdf, parks_gdf, out_files,
                   error, rtVars, ucVars, auxVars>>

WebTrees ==
    /\ pc = "web_amenities"
    /\ IF frames.trees_wgs84.loaded
       THEN LET r == reduce_coordinate_precision(frames.trees_wgs84, 6)
            IN  /\ frames' = [frames EXCEPT !.trees_wgs84 = r.gdf]
                /\ web_files' = to_file(web_files, "trees", r.ret)
       ELSE UNCHANGED <<frames, web_files>>
    /\ pc' = "web_trees"
    /\ UNCHANGED <<dataVars, has_type_column, trees_gdf, parks_gdf, out_files,
                   error, rtVars, ucVars, auxVars>>

WebParks ==
    /\ pc = "web_trees"
    /\ IF frames.parks_wgs84.loaded
       THEN LET s == simplify_geometries(frames.parks_wgs84, PARK_SIMPLIFY_TOLERANCE_M)
                parks_web == reduce_coordinate_precision(s.ret, 6).ret
            IN  /\ frames' = [frames EXCEPT !.parks_wgs84 = s.gdf]
                /\ web_files' = to_file(web_files, "parks", parks_web)
       ELSE UNCHANGED <<frames, web_files>>
    /\ pc' = "done"
    /\ UNCHANGED <<dataVars, has_type_column, trees_gdf, parks_gdf, out_files,
                   error, rtVars, ucVars, auxVars>>

NextRun ==
    \/ LoadBuildings
    \/ LoadAmenities
    \/ LoadTrees
    \/ LoadParks
    \/ PrepareBuildings
    \/ MissingClassificationColumn
    \/ PrepareAmenities
    \/ SpatialJoin
    \/ Aggregate
    \/ MergeMetrics
    \/ CountTrees
    \/ WriteBuildings
    \/ ExportAmenities
    \/ WriteTrees
    \/ WriteParks
    \/ WebBuildings
    \/ WebAmenities
    \/ WebTrees
    \/ WebParks

SpecRun == InitRun /\ [][NextRun]_vars


\* ---------------------------------------------------------------------------
\* simplify_geometries called on its own, on layers in any CRS.
\* ---------------------------------------------------------------------------

\* EPSG codes of geographic (degree) and of projected (metre) CRSs
GeographicCrs == {4326, 4269}
MetricCrs == {2039, 32636}
SimplifyCrs == GeographicCrs \cup MetricCrs \cup {NoCRS, NoEpsgCode}
SimplifyTolerances == {BUILDING_SIMPLIFY_TOLERANCE_M, PARK_SIMPLIFY_TOLERANCE_M}

\* the layers simplify_geometries is given: any CRS, fresh or already
\* reduced to centroids
SimplifyLayers ==
    {[Layer(crs, FeatureRows(p)) EXCEPT !.ops = o] :
        crs \in SimplifyCrs, p \in ParkLayers, o \in {<<>>, <<<<"centroid">>>>}}

InitSimplify ==
    /\ \E gdf \in SimplifyLayers, tol \in SimplifyTolerances :
          sg = [pc |-> "start", gdf |-> gdf, tolerance_m |-> tol,
                after |-> gdf, ret |-> gdf]
    /\ RtIdle /\ UcIdle /\ PlIdle /\ LdIdle /\ RdIdle /\ PrIdle

SgSimplify ==
    /\ sg.pc = "start"
    /\ LET r == simplify_geometries(sg.gdf, sg.tolerance_m)
       IN  sg' = [sg EXCEPT !.pc = "done", !.after = r.gdf, !.ret = r.ret]
    /\ UNCHANGED <<rtVars, ucVars, plVars, ld, rd, pr>>

NextSimplify == SgSimplify

SpecSimplify == InitSimplify /\ [][NextSimplify]_vars


\* ---------------------------------------------------------------------------
\* Two runs of the aggregation (lines 244-299) side by side, each on its own
\* buildings and amenities, to compare the amen_ columns they produce.
\* ---------------------------------------------------------------------------

PairBuildingSamples == {b \in BuildingSamples : valid(b)}
PairAmenitySamples ==
    {s \in AmenitySamples :
        s.cls \in {StrVal(<<"A", " ", "b">>), StrVal(<<" ", "C">>),
                   StrVal(<<"O", "t", "h", "e", "r">>)}}
PairBuildings == UNION {[1..n -> PairBuildingSamples] : n \in 0..MaxRunFeatures}
PairAmenities == UNION {[1..n -> PairAmenitySamples] : n \in 0..MaxAmenities}
PairInputs == [buildings : PairBuildings, amenities : PairAmenities]

\* metric_cols of line 297: the amen_ columns of the buildings table after
\* the merge with the pivot, in column order
metric_cols(rawB, rawA) ==
    Pivot(Counts(SJoin(AmenityRows(rawA), BuildingRows(rawB)))).columns

InitPair ==
    /\ \E a \in PairInputs, b \in PairInputs :
          pr = [pc |-> "start", a |-> a, b |-> b, colsA |-> <<>>, colsB |-> <<>>]
    /\ RtIdle /\ UcIdle /\ PlIdle /\ LdIdle /\ RdIdle /\ SgIdle

PrRunA ==
    /\ pr.pc = "start"
    /\ pr' = [pr EXCEPT !.pc = "ranA",
                        !.colsA = metric_cols(pr.a.buildings, pr.a.amenities)]
    /\ UNCHANGED <<rtVars, ucVars, plVars, ld, rd, sg>>

PrRunB ==
    /\ pr.pc = "ranA"
    /\ pr' = [pr EXCEPT !.pc = "done",
                        !.colsB = metric_cols(pr.b.buildings, pr.b.amenities)]
    /\ UNCHANGED <<rtVars, ucVars, plVars, ld, rd, sg>>

NextPair == PrRunA \/ PrRunB

SpecPair == InitPair /\ [][NextPair]_vars



----------------------------------------------------------------------------
\* Claims about the pipeline, checked under Spec.

Merged == pc \in {"merged", "trees_counted", "buildings_written", "exported"}
BuildingSet == {buildings[k] : k \in 1..Len(buildings)}

\* Every cell of the amenity lies in the buffer, and there is one.
FullyInside(g, buf) ==
    g.kind = "geom" /\ g.cells # {} /\ \A c \in g.cells : c \in buf

\* the accepted amenities of a type that lie fully inside a building's buffer
InsideOfType(row, ty) ==
    {a \in amenities : a.amenity_type = ty /\ FullyInside(a.geom, row.buffer_m)}

\* the count a building's row shows for a type (no column: nothing counted)
ShownCount(row, ty) ==
    IF amen_col(ty) \in DOMAIN row.metrics THEN row.metrics[amen_col(ty)].n ELSE 0

\* C1: an accepted amenity adds exactly 1 to a building's count for its type
\* iff its geometry lies fully within the building's buffer: per building
\* and type the count is the number of accepted amenities of that type fully
\* inside the buffer, so straddling amenities and amenities in no buffer add
\* nothing and an amenity inside several buffers is counted in each.
C1_CountedIffWithin ==
    Merged =>
        \A row \in BuildingSet :
            \A ty \in {a.amenity_type : a \in amenities} :
                ShownCount(row, ty) = Cardinality(InsideOfType(row, ty))

\* One amenity is counted by two buildings while another, which overlaps
\* both buffers without lying in either, is counted by none.
C1_Witness ==
    /\ Merged
    /\ \E r1, r2 \in BuildingSet : \E a, s \in amenities :
          /\ r1.building_id # r2.building_id
          /\ FullyInside(a.geom, r1.buffer_m) /\ FullyInside(a.geom, r2.buffer_m)
          /\ ShownCount(r1, a.amenity_type) = 1
          /\ ShownCount(r2, a.amenity_type) = 1
          /\ s.geom.cells \cap r1.buffer_m # {} /\ s.geom.cells \cap r2.buffer_m # {}
          /\ ~FullyInside(s.geom, r1.buffer_m) /\ ~FullyInside(s.geom, r2.buffer_m)
          /\ s.amenity_type = a.amenity_type

\* the join rows of a building
JoinedTo(row) ==
    {j \in joined : ~j.building_id.isna /\ j.building_id.n = row.building_id}

\* C2: after aggregation every building has a non-null, non-negative
\* integer in every amen_ column, 0 where it has no joined amenity of the
\* category, also when it has no joined amenity at all.
C2_EveryColumnFilled ==
    Merged =>
        \A row \in BuildingSet :
            /\ DOMAIN row.metrics = SeqRange(pivot.columns)
            /\ \A c \in DOMAIN row.metrics :
                  /\ ~row.metrics[c].isna
                  /\ row.metrics[c].n \in Nat
                  /\ (~\E j \in JoinedTo(row) : amen_col(j.amenity_type) = c)
                        => row.metrics[c].n = 0

\* One building has two amenities of a category, another has none of any
\* kind and shows 0 in that column.
C2_Witness ==
    /\ Merged
    /\ \E r1, r2 \in BuildingSet : \E c \in DOMAIN r1.metrics :
          /\ r1.metrics[c] = Num(2)
          /\ JoinedTo(r2) = {}
          /\ r2.metrics[c] = Num(0)

\* the columns of a row added up, one column at a time
RECURSIVE TotalOver(_, _)
TotalOver(metrics, S) ==
    IF S = {} THEN 0
    ELSE LET c == CHOOSE x \in S : TRUE
         IN metrics[c].n + TotalOver(metrics, S \ {c})

\* C3: num_amenities is the sum of the building's amen_ columns, and 0 for a
\* building with no joined amenity (also when there is no amen_ column).
C3_NumAmenitiesIsSum ==
    Merged =>
        \A row \in BuildingSet :
            /\ ~row.num_amenities.isna
            /\ row.num_amenities.n = TotalOver(row.metrics, DOMAIN row.metrics)
            /\ JoinedTo(row) = {} => row.num_amenities = Num(0)

\* A building with amenities of two categories shows their total, next to a
\* building with no joined amenity.
C3_Witness ==
    /\ Merged
    /\ \E r1, r2 \in BuildingSet : \E c, d \in DOMAIN r1.metrics :
          /\ c # d /\ r1.metrics[c].n > 0 /\ r1.metrics[d].n > 0
          /\ r1.num_amenities = Num(2)
          /\ JoinedTo(r2) = {} /\ r2.num_amenities = Num(0)

IsMissing(v) == v.kind \in {"nan", "none"}
IsBlank(v) == v.kind = "str" /\ \A i \in 1..Len(v.s) : IsSpace(v.s[i])

\* C8 (as claimed): no amenity whose classification is missing or blank
\* reaches the join, a building count or the exported layers.
C8_MissingOrBlankDropped ==
    pc \notin {"start", "buildings_ready"} =>
        /\ \A a \in amenities : ~IsMissing(a.cls) /\ ~IsBlank(a.cls)
        /\ \A j \in joined : \A i \in 1..Len(rawAmenities) :
              j.a = i - 1 => ~IsMissing(rawAmenities[i].cls) /\ ~IsBlank(rawAmenities[i].cls)
        /\ \A a \in amen_all : ~IsMissing(a.cls) /\ ~IsBlank(a.cls)

\* the accepted amenities, of any type, fully inside a building's buffer
InsideAny(row) == {a \in amenities : FullyInside(a.geom, row.buffer_m)}

\* C9: amenities of an excluded type are in no exported amenity file, yet
\* they are counted in the buildings' amen_ columns and in num_amenities.
C9_ExcludedCountedNotExported ==
    pc = "exported" =>
        /\ \A a \in amen_all : a.amenity_type \notin EXCLUDED_AMENITY_TYPES
        /\ \A f \in DOMAIN amen_files : \A a \in amen_files[f] :
              a.amenity_type \notin EXCLUDED_AMENITY_TYPES
        /\ \A row \in BuildingSet :
              /\ \A ty \in EXCLUDED_AMENITY_TYPES :
                    ShownCount(row, ty) = Cardinality(InsideOfType(row, ty))
              /\ row.num_amenities.n = Cardinality(InsideAny(row))

\* An amenity of type "other" is counted by a building and is missing from
\* the exported layer, which holds another amenity.
C9_Witness ==
    /\ pc = "exported"
    /\ \E row \in BuildingSet : \E a \in amenities :
          /\ a.amenity_type \in EXCLUDED_AMENITY_TYPES
          /\ FullyInside(a.geom, row.buffer_m)
          /\ ShownCount(row, a.amenity_type) >= 1
          /\ row.num_amenities.n >= 1
          /\ a \notin amen_all
    /\ amen_all # {}

\* C12: after a successful run every distinct amenity_type among the exported
\* amenities has exactly one file amenities_<category>, holding all and only
\* the exported amenities of that category; no two categories share a file.
C12_OneFilePerCategory ==
    pc = "exported" =>
       LET types == {a.amenity_type : a \in amen_all}
       IN  /\ \A ty \in types :
                /\ out_path(ty) \in DOMAIN amen_files
                /\ amen_files[out_path(ty)] = {a \in amen_all : a.amenity_type = ty}
           /\ \A t1, t2 \in types : t1 # t2 => out_path(t1) # out_path(t2)
           /\ Cardinality(DOMAIN amen_files) = Cardinality(types)

\* C17: the building_id values of the accepted buildings are the dense
\* integers 0..n-1, n the number of buildings left by the empty/invalid filter,
\* and they are pairwise distinct.
C17_BuildingIdDense ==
    pc # "start" =>
       /\ {buildings[k].building_id : k \in 1..Len(buildings)} = 0..(Len(buildings) - 1)
       /\ \A i, j \in 1..Len(buildings) :
             i # j => buildings[i].building_id # buildings[j].building_id

\* the rows that stand for the input building i
RowsOfInput(rows, i) ==
    {k \in 1..Len(rows) : rows[k].building_id = i - 1}
Accepted(i) == rawBuildings[i].cells # {} /\ rawBuildings[i].is_valid

----------------------------------------------------------------------------
\* Claims about the whole run, checked under SpecRun.

NoFiles == DOMAIN out_files = {} /\ DOMAIN web_files = {} /\ DOMAIN amen_files = {}
HasOp(layer, name) == \E i \in 1..Len(layer.ops) : layer.ops[i][1] = name
WebStage == {"web_buildings", "web_amenities", "web_trees", "done"}

\* C13: after a successful run every layer of the full-precision output set
\* (buildings_accessibility, amenities_all, each amenities_<category>, trees
\* and parks when loaded) has a web variant with the same features and
\* attributes.
C13_EveryLayerHasWebVariant ==
    pc = "done" =>
       /\ \A n \in DOMAIN out_files :
             /\ n \in DOMAIN web_files
             /\ web_files[n].rows = out_files[n].rows
       /\ \A p \in DOMAIN amen_files :
             /\ p \in DOMAIN web_amen_files
             /\ web_amen_files[p] = amen_files[p]

\* C14: a trees or parks layer that is absent or fails to load does not stop
\* the run: the buildings and amenities files of both variants are written,
\* every building has num_trees = 0 when the trees are not loaded, and no file
\* of either variant is written for the layer not loaded; a failure loading
\* buildings or amenities aborts the run with no file written.
C14_OptionalLayerFailureTolerated ==
    /\ pc = "aborted" =>
          /\ error.exc # "none"
          /\ error.layer \in {"buildings", "amenities"}
          /\ NoFiles
    /\ pc # "aborted" => error = NoError
    /\ pc = "done" =>
          /\ \A n \in {"buildings_accessibility", "amenities_all"} :
                n \in DOMAIN out_files /\ n \in DOMAIN web_files
          /\ ~trees_gdf.loaded =>
                /\ "trees" \notin DOMAIN out_files \cup DOMAIN web_files
                /\ \A f \in {out_files, web_files} :
                      \A k \in 1..Len(f["buildings_accessibility"].rows) :
                         f["buildings_accessibility"].rows[k].num_trees = 0
          /\ ~parks_gdf.loaded =>
                "parks" \notin DOMAIN out_files \cup DOMAIN web_files

C14_Witness ==
    /\ pc = "done"
    /\ ~trees_gdf.loaded
    /\ parks_gdf.loaded
    /\ Len(out_files["buildings_accessibility"].rows) = 1
    /\ out_files["buildings_accessibility"].rows[1].num_trees = 0
    /\ "parks" \in DOMAIN web_files
    /\ "trees" \notin DOMAIN out_files

\* C15: when the amenities layer lacks the classification column the run
\* aborts with an error, and no output file of either variant has been
\* written by then.
C15_MissingColumnAbortsBeforeWrites ==
    ~has_type_column =>
       /\ NoFiles
       /\ pc \in {"load_buildings", "load_amenities", "load_trees", "load_parks",
                  "start", "buildings_ready", "aborted"}
       /\ pc = "aborted" => error.exc # "none"

C15_Witness ==
    /\ ~has_type_column
    /\ pc = "aborted"
    /\ error = [exc |-> "KeyError", layer |-> "amenities"]
    /\ rawAmenities # <<>>
    /\ buildings # <<>>
    /\ NoFiles

\* C19: simplify_geometries and reduce_coordinate_precision leave the layer
\* passed to them as it was and change no attribute; the full-precision files
\* hold geometry that is neither simplified nor rounded, and only the web
\* files hold optimized geometry.
C19_TransformsLeaveInputAlone ==
    /\ \A n \in DOMAIN out_files :
          ~HasOp(out_files[n], "simplify") /\ ~HasOp(out_files[n], "round")
    /\ pc \in WebStage =>
          /\ frames.buildings_wgs84 = out_files["buildings_accessibility"]
          /\ frames.amenities_filtered = out_files["amenities_all"]
          /\ "trees" \in DOMAIN out_files => frames.trees_wgs84 = out_files["trees"]
          /\ "parks" \in DOMAIN out_files => frames.parks_wgs84 = out_files["parks"]
    /\ \A n \in DOMAIN web_files :
          /\ HasOp(web_files[n], "round")
          /\ HasOp(web_files[n], "simplify") <=> n \in {"buildings_accessibility", "parks"}
          /\ web_files[n].rows = out_files[n].rows
          /\ web_files[n].crs = out_files[n].crs

C19_Witness ==
    /\ pc = "done"
    /\ DOMAIN web_files = {"buildings_accessibility", "amenities_all", "trees", "parks"}
    /\ Len(out_files["buildings_accessibility"].rows) = 1
    /\ out_files["amenities_all"].rows # {}
    /\ HasOp(web_files["parks"], "simplify")
    /\ ~HasOp(frames.parks_wgs84, "simplify")


----------------------------------------------------------------------------
\* Claims about simplify_geometries, checked under SpecSimplify.

\* the operations the call added to the layer
AddedOps == SubSeq(sg.ret.ops, Len(sg.gdf.ops) + 1, Len(sg.ret.ops))
ValidThenSimplified ==
    << <<"make_valid">>, <<"simplify", sg.tolerance_m, "preserve_topology">> >>

\* C21: on a layer in a geographic CRS simplify_geometries reprojects to the
\* metric CRS, makes the geometries valid, simplifies with topology
\* preservation and reprojects back, so the result is in the input's CRS and
\* the tolerance was applied in metres; on a layer in a metric CRS nothing is
\* reprojected; make_valid always comes before simplify.
C21_SimplifyInMetricCrs ==
    sg.pc = "done" =>
       /\ sg.ret.crs = sg.gdf.crs
       /\ sg.gdf.crs \in GeographicCrs =>
             AddedOps = <<<<"to_crs", 2039>>>> \o ValidThenSimplified
                        \o <<<<"to_crs", sg.gdf.crs>>>>
       /\ sg.gdf.crs \in MetricCrs => AddedOps = ValidThenSimplified
       /\ \E i, j \in 1..Len(AddedOps) :
             /\ i < j
             /\ AddedOps[i][1] = "make_valid"
             /\ AddedOps[j][1] = "simplify"

\* What the code does: the same with EPSG:4326 as the only geographic CRS.
SimplifyReprojectsOnly4326 ==
    sg.pc = "done" =>
       /\ sg.ret.crs = sg.gdf.crs
       /\ sg.gdf.crs = 4326 =>
             AddedOps = <<<<"to_crs", 2039>>>> \o ValidThenSimplified
                        \o <<<<"to_crs", 4326>>>>
       /\ sg.gdf.crs # 4326 => AddedOps = ValidThenSimplified


----------------------------------------------------------------------------
\* Claims about the amen_ columns of two runs, checked under SpecPair.

\* the distinct categories a run observes
Observed(raw) == {a.amenity_type : a \in AmenityRows(raw)}
\* the categories with an amenity inside the buffer of some building
Counted(rawB, rawA) ==
    {r.amenity_type :
        r \in {x \in SJoin(AmenityRows(rawA), BuildingRows(rawB)) : ~x.building_id.isna}}
SamePlaces(x, y) ==
    /\ Len(x) = Len(y)
    /\ \E f \in [1..Len(x) -> 1..Len(x)] :
          /\ \A i, j \in 1..Len(x) : i # j => f[i] # f[j]
          /\ \A i \in 1..Len(x) : y[i] = x[f[i]]

\* C22: two runs that observe the same distinct categories have the same
\* amen_ columns in the same lexicographic order, whatever the order of the
\* input features and whichever buildings the amenities fall into.
C22_ColumnsFromObservedCategories ==
    (pr.pc = "done" /\ Observed(pr.a.amenities) = Observed(pr.b.amenities))
       => pr.colsA = pr.colsB

\* What the code does: the columns are those of the categories with an
\* amenity inside some buffer, in lexicographic order; the order of the input
\* features plays no part.
ColumnsFromCountedCategories ==
    pr.pc = "done" =>
       /\ pr.colsA = [i \in 1..Cardinality(Counted(pr.a.buildings, pr.a.amenities)) |->
                        amen_col(SortedLabels(Counted(pr.a.buildings, pr.a.amenities))[i])]
       /\ Counted(pr.a.buildings, pr.a.amenities) = Counted(pr.b.buildings, pr.b.amenities)
             => pr.colsA = pr.colsB
       /\ (pr.a.buildings = pr.b.buildings /\ SamePlaces(pr.a.amenities, pr.b.amenities))
             => pr.colsA = pr.colsB


(***************************************************************************)
(*       reduce_coordinate_precision and _round_geojson_coords             *)
(*                                                                         *)
(* A coordinate is a whole number of 10^-Digits units.  The GeoJSON        *)
(* mapping of a geometry is a tree: a leaf is a number, a node a list.     *)
(***************************************************************************)

\* Decimal digits a coordinate carries.
Digits == 2

RECURSIVE Pow10(_)
Pow10(k) == IF k = 0 THEN 1 ELSE 10 * Pow10(k - 1)

Leaf(x) == [num |-> TRUE, v |-> x, items |-> <<>>]
List(items) == [num |-> FALSE, v |-> 0, items |-> items]
Pt(x, y) == List(<<Leaf(x), Leaf(y)>>)

\* mapping(geom): a geometry collection has "geometries" and no
\* "coordinates" key
Shape(type, coords) ==
    [state |-> "ok", type |-> type, has_coordinates |-> TRUE,
     coordinates |-> coords, geometries |-> <<>>]
Collection(members) ==
    [state |-> "ok", type |-> "GeometryCollection", has_coordinates |-> FALSE,
     coordinates |-> List(<<>>), geometries |-> members]
EmptyGeometry ==
    [state |-> "empty", type |-> "Polygon", has_coordinates |-> TRUE,
     coordinates |-> List(<<>>), geometries |-> <<>>]
NullGeometry ==
    [state |-> "null", type |-> "None", has_coordinates |-> FALSE,
     coordinates |-> List(<<>>), geometries |-> <<>>]

\* Coordinate values and the geometries built from them.
CoordValues == {0, 125, 135, 0 - 15, 250}
RoundPoints == {<<x, y>> : x \in CoordValues, y \in {0, 135}}
Ring(p) ==
    List(<<Pt(p[1], p[2]), Pt(p[1] + 101, p[2]), Pt(p[1] + 101, p[2] + 104),
           Pt(p[1], p[2])>>)
RoundGeometries ==
    {Shape("Point", Pt(p[1], p[2])) : p \in RoundPoints}
    \cup {Shape("LineString", List(<<Pt(p[1], p[2]), Pt(q[1], q[2])>>)) :
            p \in RoundPoints, q \in {<<125, 0>>, <<250, 135>>}}
    \cup {Shape("Polygon", List(<<Ring(p), Ring(<<p[1] + 15, p[2] + 15>>)>>)) :
            p \in RoundPoints}
    \cup {Shape("MultiPolygon", List(<<List(<<Ring(p)>>), List(<<Ring(<<135, 125>>)>>)>>)) :
            p \in RoundPoints}
    \cup {Collection(<<Shape("Point", Pt(p[1], p[2])),
                       Shape("LineString", List(<<Pt(p[1], p[2]), Pt(0, 125)>>))>>) :
            p \in RoundPoints}
    \cup {EmptyGeometry, NullGeometry}

\* a rounding that always moves to the next multiple
round_always_up(x, precision) ==
    LET unit == Pow10(Digits - precision)
    IN ((x \div unit) + 1) * unit
\* round(x, precision): to the nearest multiple of 10^-precision, a tie to
\* the even one
round(x, precision) ==
    LET unit == Pow10(Digits - precision)
        q == x \div unit
        r == x % unit
    IN IF 2 * r < unit THEN q * unit
       ELSE IF 2 * r > unit THEN (q + 1) * unit
       ELSE IF q % 2 = 0 THEN q * unit ELSE (q + 1) * unit

\* round_coord(c) of _round_geojson_coords
RECURSIVE round_coord(_, _)
round_coord(c, precision) ==
    IF ~c.num
    THEN IF Len(c.items) >= 2 /\ c.items[1].num
         THEN List([i \in 1..Len(c.items) |->
                      Leaf(round(c.items[i].v, precision))])
         ELSE List([i \in 1..Len(c.items) |-> round_coord(c.items[i], precision)])
    ELSE c

\* _round_geojson_coords: without a "coordinates" key the dict is returned
\* as it is
round_geojson_coords(geojson, precision) ==
    IF ~geojson.has_coordinates THEN geojson
    ELSE [geojson EXCEPT !.coordinates = round_coord(geojson.coordinates, precision)]

\* round_coords(geom) of reduce_coordinate_precision
round_coords(geom, precision) ==
    IF geom.state \in {"null", "empty"} THEN geom
    ELSE round_geojson_coords(geom, precision)

InitRound ==
    /\ rd \in {[pc |-> "start", geom |-> g, precision |-> p, once |-> g, twice |-> g] :
                g \in RoundGeometries, p \in 0..Digits}
    /\ RtIdle /\ UcIdle /\ PlIdle /\ LdIdle /\ SgIdle /\ PrIdle

RdRound ==
    /\ rd.pc = "start"
    /\ rd' = [rd EXCEPT !.pc = "once", !.once = round_coords(rd.geom, rd.precision)]
    /\ UNCHANGED <<rtVars, ucVars, plVars, ld, sg, pr>>

RdRoundAgain ==
    /\ rd.pc = "once"
    /\ rd' = [rd EXCEPT !.pc = "twice", !.twice = round_coords(rd.once, rd.precision)]
    /\ UNCHANGED <<rtVars, ucVars, plVars, ld, sg, pr>>

NextRound == RdRound \/ RdRoundAgain

SpecRound == InitRound /\ [][NextRound]_vars

----------------------------------------------------------------------------
\* Claims about the rounding, checked under SpecRound.

\* C16: rounding the rounded geometry again at the same precision gives the
\* geometry the first rounding gave.
C16_RoundingIdempotent ==
    rd.pc = "twice" => rd.twice = rd.once

\* A polygon whose first rounding moved a vertex is left alone by the second.
C16_Witness ==
    /\ rd.pc = "twice"
    /\ rd.geom.type = "Polygon" /\ rd.geom.state = "ok"
    /\ rd.once # rd.geom
    /\ rd.twice = rd.once

\* every number of a coordinate tree, left to right
RECURSIVE TreeNumbers(_)
RECURSIVE ItemsNumbers(_)
TreeNumbers(c) == IF c.num THEN <<c.v>> ELSE ItemsNumbers(c.items)
ItemsNumbers(items) ==
    IF items = <<>> THEN <<>>
    ELSE TreeNumbers(Head(items)) \o ItemsNumbers(Tail(items))

\* every coordinate value of a geometry, the members of a collection included
RECURSIVE GeometryNumbers(_)
RECURSIVE MembersNumbers(_)
GeometryNumbers(g) ==
    IF g.has_coordinates THEN TreeNumbers(g.coordinates)
    ELSE MembersNumbers(g.geometries)
MembersNumbers(gs) ==
    IF gs = <<>> THEN <<>>
    ELSE GeometryNumbers(Head(gs)) \o MembersNumbers(Tail(gs))

NearestMultiple(x, unit) ==
    CHOOSE m \in {(x \div unit) * unit, ((x \div unit) + 1) * unit} :
        LET o == ((x \div unit) * unit) + (((x \div unit) + 1) * unit) - m
            dm == IF m > x THEN m - x ELSE x - m
            do == IF o > x THEN o - x ELSE x - o
        IN dm < do \/ (dm = do /\ (m \div unit) % 2 = 0)

\* C20 (as claimed): every coordinate value of every non-empty geometry,
\* whatever its type, is rounded to the given number of decimals; empty and
\* null geometries are returned unchanged.
C20_EveryCoordinateRounded ==
    rd.pc \in {"once", "twice"} =>
        IF rd.geom.state \in {"null", "empty"} THEN rd.once = rd.geom
        ELSE /\ rd.once.type = rd.geom.type
             /\ Len(GeometryNumbers(rd.once)) = Len(GeometryNumbers(rd.geom))
             /\ \A i \in 1..Len(GeometryNumbers(rd.geom)) :
                   GeometryNumbers(rd.once)[i] =
                      NearestMultiple(GeometryNumbers(rd.geom)[i],
                                      Pow10(Digits - rd.precision))

\* the same for the geometries that carry a "coordinates" key
RoundedUnlessCollection ==
    (rd.pc \in {"once", "twice"} /\ rd.geom.state = "ok" /\ rd.geom.has_coordinates) =>
        \A i \in 1..Len(GeometryNumbers(rd.geom)) :
            GeometryNumbers(rd.once)[i] =
               NearestMultiple(GeometryNumbers(rd.geom)[i], Pow10(Digits - rd.precision))

=============================================================================
